---- MODULE Spec2Model ----
(***************************************************************************)
(* A model of triton_viz/interpreter.py: the RecordBuilder session object  *)
(* (launches, grid shape and index, sampling filter, tensor registry), the *)
(* pointer-to-tensor resolution, the out-of-bounds check and the launch    *)
(* driver _grid_executor_call.                                             *)
(*                                                                         *)
(* Python values are modelled as follows.  A tuple is a sequence.  None    *)
(* and the empty tuple, which `not self._sampling_grid_idx` does not tell  *)
(* apart, are both the empty sequence.  An exception raised by a call is   *)
(* recorded in err, the value a call returns in ret, its name in call.     *)
(***************************************************************************)
EXTENDS Integers, Sequences, FiniteSets, TLC

VARIABLES
    launches,           \* RecordBuilder._launches: sequence of Launch
    sampling_grid_idx,  \* RecordBuilder._sampling_grid_idx
    grid_idx,           \* RecordBuilder._grid_idx
    grid_dim,           \* RecordBuilder._grid_dim
    err,                \* outcome of the last call: "ok" or the exception raised
    ret,                \* value returned by the last call
    call,               \* name of the last operation called
    pc,                 \* position of _grid_executor_call
    frame               \* locals of _grid_executor_call and of the kernel instance

dvars == <<pc, frame>>
vars == <<launches, sampling_grid_idx, grid_idx, grid_dim, err, ret, call, pc, frame>>

(***************************************************************************)
(* Bounds of the model.                                                    *)
(***************************************************************************)
MaxDim == 2
MaxLaunches == 2
MaxRecords == 2
MaxTensors == 2
MaxBatch == 2
MaxRank == 3

Dims == 1..MaxDim
Shapes == {<<nx, ny, nz>> : nx \in Dims, ny \in Dims, nz \in Dims}
\* arguments tried for set_grid_idx: one below and one above every legal range
IdxArgs == (0 - 1)..MaxDim
Cells == 0..(MaxDim - 1)
SamplingTargets ==
    {<<a>> : a \in Cells}
        \cup {<<a, b>> : a \in Cells, b \in Cells}
        \cup {<<a, b, c>> : a \in Cells, b \in Cells, c \in Cells}

NoneVal == <<>>
NoRet == [kind |-> "None"]
\* the locals of _grid_executor_call before it is called
NoFrame ==
    [args |-> <<>>, i |-> 1, tensors |-> <<>>, grid |-> <<>>, cell |-> <<0, 0, 0>>,
     prog |-> <<>>, k |-> 1, warmup |-> FALSE, log |-> <<>>]

(***************************************************************************)
(* Data.                                                                   *)
(***************************************************************************)
Launch(grid, tensors, records) ==
    [grid |-> grid, tensors |-> tensors, records |-> records]

Tensor(ptr, stride, shape, element_size) ==
    [ptr |-> ptr, stride |-> stride, shape |-> shape, element_size |-> element_size]

Grid(idx) == [kind |-> "Grid", idx |-> idx]

OpKinds == {"BinaryOp", "MakeRange"}
OpRecords == {[kind |-> k] : k \in OpKinds}

Last(s) == s[Len(s)]

(***************************************************************************)
(* RecordBuilder.                                                          *)
(***************************************************************************)
\* reset leaving the sampling target and the grid index as they are
reset_launches_only ==
    /\ call' = "reset"
    /\ launches' = <<>>
    /\ grid_dim' = <<1, 1, 1>>
    /\ err' = "ok"
    /\ ret' = NoRet
    /\ UNCHANGED <<sampling_grid_idx, grid_idx>>

reset ==
    /\ call' = "reset"
    /\ launches' = <<>>
    /\ sampling_grid_idx' = NoneVal
    /\ grid_idx' = <<0, 0, 0>>
    /\ grid_dim' = <<1, 1, 1>>
    /\ err' = "ok"
    /\ ret' = NoRet

set_sampling_grid_idx(idx) ==
    /\ call' = "set_sampling_grid_idx"
    /\ sampling_grid_idx' = idx
    /\ err' = "ok"
    /\ ret' = NoRet
    /\ UNCHANGED <<launches, grid_idx, grid_dim>>

set_grid_dim(nx, ny, nz) ==
    /\ call' = "set_grid_dim"
    /\ grid_dim' = <<nx, ny, nz>>
    /\ launches' = Append(launches, Launch(<<nx, ny, nz>>, <<>>, <<>>))
    /\ err' = "ok"
    /\ ret' = NoRet
    /\ UNCHANGED <<sampling_grid_idx, grid_idx>>

\* to_1d_grid with the two-component case scaled by the x extent instead of the y
\* extent
to_1d_grid_x_extent(idx, dim) ==
    CASE Len(idx) = 1 -> idx[1]
      [] Len(idx) = 2 -> idx[1] * dim[1] + idx[2]
      [] Len(idx) = 3 -> idx[1] * dim[2] * dim[3] + idx[2] * dim[3] + idx[3]

\* _to_1d_grid, nested in add_record; dim is self._grid_dim
to_1d_grid(idx, dim) ==
    CASE Len(idx) = 1 -> idx[1]
      [] Len(idx) = 2 -> idx[1] * dim[2] + idx[2]
      [] Len(idx) = 3 -> idx[1] * dim[2] * dim[3] + idx[2] * dim[3] + idx[3]

\* the condition of the if statement of add_record
record_accepted(sampling, idx, dim) ==
    \/ sampling = NoneVal
    \/ to_1d_grid(sampling, dim) = to_1d_grid(idx, dim)

\* append_to_last appending to the first launch instead of the last
append_to_first(ls, record) ==
    [ls EXCEPT ![1].records = Append(@, record)]

\* self._launches[-1].records.append(record)
append_to_last(ls, record) ==
    [ls EXCEPT ![Len(ls)].records = Append(@, record)]

\* The effect of add_record(record) on (launches, err) when self._grid_idx is idx.
add_record_at(record, idx) ==
    IF record_accepted(sampling_grid_idx, idx, grid_dim)
    THEN IF launches = <<>>
         THEN launches' = launches /\ err' = "IndexError"
         ELSE launches' = append_to_last(launches, record) /\ err' = "ok"
    ELSE launches' = launches /\ err' = "ok"

add_record(record) ==
    /\ call' = "add_record"
    /\ add_record_at(record, grid_idx)
    /\ ret' = NoRet
    /\ UNCHANGED <<sampling_grid_idx, grid_idx, grid_dim>>

\* set_grid_idx with the Grid marker appended past the sampling filter
set_grid_idx_unfiltered(x, y, z) ==
    /\ call' = "set_grid_idx"
    /\ IF ~(x < grid_dim[1]) \/ ~(y < grid_dim[2]) \/ ~(z < grid_dim[3])
       THEN /\ err' = "AssertionError"
            /\ ret' = NoRet
            /\ UNCHANGED <<launches, sampling_grid_idx, grid_idx, grid_dim>>
       ELSE /\ grid_idx' = <<x, y, z>>
            /\ IF launches = <<>>
               THEN launches' = launches /\ err' = "IndexError"
               ELSE launches' = append_to_last(launches, Grid(<<x, y, z>>)) /\ err' = "ok"
            /\ ret' = NoRet
            /\ UNCHANGED <<sampling_grid_idx, grid_dim>>

\* set_grid_idx with the index assigned before the assertions
set_grid_idx_assign_first(x, y, z) ==
    /\ call' = "set_grid_idx"
    /\ grid_idx' = <<x, y, z>>
    /\ IF ~(x < grid_dim[1]) \/ ~(y < grid_dim[2]) \/ ~(z < grid_dim[3])
       THEN /\ err' = "AssertionError"
            /\ ret' = NoRet
            /\ UNCHANGED <<launches, sampling_grid_idx, grid_dim>>
       ELSE /\ add_record_at(Grid(<<x, y, z>>), <<x, y, z>>)
            /\ ret' = NoRet
            /\ UNCHANGED <<sampling_grid_idx, grid_dim>>

set_grid_idx(x, y, z) ==
    /\ call' = "set_grid_idx"
    /\ IF ~(x < grid_dim[1]) \/ ~(y < grid_dim[2]) \/ ~(z < grid_dim[3])
       THEN /\ err' = "AssertionError"
            /\ ret' = NoRet
            /\ UNCHANGED <<launches, sampling_grid_idx, grid_idx, grid_dim>>
       ELSE /\ grid_idx' = <<x, y, z>>
            /\ add_record_at(Grid(<<x, y, z>>), <<x, y, z>>)
            /\ ret' = NoRet
            /\ UNCHANGED <<sampling_grid_idx, grid_dim>>

\* add_tensor(data, dtype, shape, stride): builds one Tensor and appends it.  The
\* descriptor built by the Tensor constructor is passed here as one value.
add_tensor(tensor) ==
    /\ call' = "add_tensor"
    /\ IF launches = <<>>
       THEN launches' = launches /\ err' = "IndexError"
       ELSE /\ launches' = [launches EXCEPT ![Len(launches)].tensors = Append(@, tensor)]
            /\ err' = "ok"
    /\ ret' = NoRet
    /\ UNCHANGED <<sampling_grid_idx, grid_idx, grid_dim>>

add_tensors(tensors) ==
    /\ call' = "add_tensors"
    /\ IF launches = <<>>
       THEN launches' = launches /\ err' = "IndexError"
       ELSE /\ launches' = [launches EXCEPT ![Len(launches)].tensors = @ \o tensors]
            /\ err' = "ok"
    /\ ret' = NoRet
    /\ UNCHANGED <<sampling_grid_idx, grid_idx, grid_dim>>

\* sorted(_, key=lambda x: x.ptr) is stable: t goes after every element whose
\* ptr is not greater than its own.
RECURSIVE insert_by_ptr(_, _)
insert_by_ptr(s, t) ==
    IF s = <<>> THEN <<t>>
    ELSE IF Last(s).ptr <= t.ptr
         THEN Append(s, t)
         ELSE Append(insert_by_ptr(SubSeq(s, 1, Len(s) - 1), t), Last(s))

\* sorted_by_ptr with the sorted copy thrown away: the list stays as registered
not_sorted(s) == s

RECURSIVE sorted_by_ptr(_)
sorted_by_ptr(s) ==
    IF s = <<>> THEN <<>>
    ELSE insert_by_ptr(sorted_by_ptr(SubSeq(s, 1, Len(s) - 1)), Last(s))

\* sort_tensor_handles sorting the first launch instead of the last
sort_first_launch ==
    /\ call' = "sort_tensor_handles"
    /\ IF launches = <<>>
       THEN launches' = launches /\ err' = "IndexError"
       ELSE /\ launches' = [launches EXCEPT ![1].tensors = sorted_by_ptr(@)]
            /\ err' = "ok"
    /\ ret' = NoRet
    /\ UNCHANGED <<sampling_grid_idx, grid_idx, grid_dim>>

sort_tensor_handles ==
    /\ call' = "sort_tensor_handles"
    /\ IF launches = <<>>
       THEN launches' = launches /\ err' = "IndexError"
       ELSE /\ launches' = [launches EXCEPT ![Len(launches)].tensors = sorted_by_ptr(@)]
            /\ err' = "ok"
    /\ ret' = NoRet
    /\ UNCHANGED <<sampling_grid_idx, grid_idx, grid_dim>>

\* tensor_scan with ret_idx assigned before the comparison: it ends on the first
\* tensor above ptr
RECURSIVE tensor_scan_above(_, _, _, _)
tensor_scan_above(tensors, ptr, i, ret_idx) ==
    IF i > Len(tensors) THEN ret_idx
    ELSE IF ptr < tensors[i].ptr THEN i
    ELSE tensor_scan_above(tensors, ptr, i + 1, i)

\* The for loop of get_tensor_ptr, at iteration i (1-based) with ret_idx so far.
RECURSIVE tensor_scan(_, _, _, _)
tensor_scan(tensors, ptr, i, ret_idx) ==
    IF i > Len(tensors) THEN ret_idx
    ELSE IF ptr < tensors[i].ptr THEN ret_idx
    ELSE tensor_scan(tensors, ptr, i + 1, i)

\* The index (1-based) get_tensor_ptr returns the tensor of; the list is not empty.
tensor_index(tensors, ptr) == tensor_scan(tensors, ptr, 1, 1)

\* The outcome of get_tensor_ptr(ptr) as a value: the tensor, or the exception.
tensor_lookup(ptr) ==
    IF launches = <<>> THEN [kind |-> "IndexError"]
    ELSE IF Last(launches).tensors = <<>> THEN [kind |-> "IndexError"]
    ELSE [kind |-> "Tensor",
          tensor |-> Last(launches).tensors[tensor_index(Last(launches).tensors, ptr)]]

get_tensor_ptr(ptr) ==
    /\ call' = "get_tensor_ptr"
    /\ IF tensor_lookup(ptr).kind = "IndexError"
       THEN err' = "IndexError" /\ ret' = NoRet
       ELSE err' = "ok" /\ ret' = tensor_lookup(ptr)
    /\ UNCHANGED <<launches, sampling_grid_idx, grid_idx, grid_dim>>

(***************************************************************************)
(* check_out_of_bounds_access.  ptrs is the flattened address batch.       *)
(***************************************************************************)
RECURSIVE prod(_)
prod(shape) == IF shape = <<>> THEN 1 ELSE shape[1] * prod(Tail(shape))

\* bounds_result with the end of the extent counted as valid
bounds_result_inclusive(tensor_ptr, ptrs) ==
    LET offsets == [i \in 1..Len(ptrs) |-> ptrs[i] - tensor_ptr.ptr]
        max_valid_offset == prod(tensor_ptr.shape) * tensor_ptr.element_size
        valid_access_mask ==
            [i \in 1..Len(ptrs) |-> offsets[i] >= 0 /\ offsets[i] <= max_valid_offset]
    IN  [kind |-> "Bounds",
         tensor_ptr |-> tensor_ptr,
         valid_access_mask |-> valid_access_mask,
         invalid_access_mask |-> [i \in 1..Len(ptrs) |-> ~valid_access_mask[i]],
         corrected_offsets |->
             [i \in 1..Len(ptrs) |-> IF valid_access_mask[i] THEN offsets[i] ELSE 0],
         offsets |-> offsets]

bounds_result(tensor_ptr, ptrs) ==
    LET offsets == [i \in 1..Len(ptrs) |-> ptrs[i] - tensor_ptr.ptr]
        max_valid_offset == prod(tensor_ptr.shape) * tensor_ptr.element_size
        valid_access_mask ==
            [i \in 1..Len(ptrs) |-> offsets[i] >= 0 /\ offsets[i] < max_valid_offset]
    IN  [kind |-> "Bounds",
         tensor_ptr |-> tensor_ptr,
         valid_access_mask |-> valid_access_mask,
         invalid_access_mask |-> [i \in 1..Len(ptrs) |-> ~valid_access_mask[i]],
         corrected_offsets |->
             [i \in 1..Len(ptrs) |-> IF valid_access_mask[i] THEN offsets[i] ELSE 0],
         offsets |-> offsets]

\* bounds_lookup raising when an address lies outside the resolved tensor
bounds_lookup_strict(ptrs) ==
    IF ptrs = <<>> THEN [kind |-> "IndexError"]
    ELSE IF tensor_lookup(ptrs[1]).kind = "IndexError" THEN [kind |-> "IndexError"]
    ELSE IF \E i \in 1..Len(ptrs) :
                bounds_result(tensor_lookup(ptrs[1]).tensor, ptrs).invalid_access_mask[i]
         THEN [kind |-> "IndexError"]
         ELSE bounds_result(tensor_lookup(ptrs[1]).tensor, ptrs)

\* bounds_lookup resolving the tensor from the last address of the batch
bounds_lookup_from_last(ptrs) ==
    IF ptrs = <<>> THEN [kind |-> "IndexError"]
    ELSE IF tensor_lookup(Last(ptrs)).kind = "IndexError" THEN [kind |-> "IndexError"]
    ELSE bounds_result(tensor_lookup(Last(ptrs)).tensor, ptrs)

\* The outcome of check_out_of_bounds_access(ptrs) as a value.
bounds_lookup(ptrs) ==
    IF ptrs = <<>> THEN [kind |-> "IndexError"]
    ELSE IF tensor_lookup(ptrs[1]).kind = "IndexError" THEN [kind |-> "IndexError"]
    ELSE bounds_result(tensor_lookup(ptrs[1]).tensor, ptrs)

check_out_of_bounds_access(ptrs) ==
    /\ call' = "check_out_of_bounds_access"
    /\ IF bounds_lookup(ptrs).kind = "IndexError"
       THEN err' = "IndexError" /\ ret' = NoRet
       ELSE err' = "ok" /\ ret' = bounds_lookup(ptrs)
    /\ UNCHANGED <<launches, sampling_grid_idx, grid_idx, grid_dim>>

(***************************************************************************)
(* The wrappers of create_masked_load and create_masked_store: the bounds  *)
(* check, then the Load or Store record.  mask is the operation's          *)
(* predicate, one boolean per address.                                     *)
(***************************************************************************)
\* access_record with the validity mask recorded without the predicate
access_record_validity_only(kind, checked, mask) ==
    [kind |-> kind,
     ptr |-> checked.tensor_ptr.ptr,
     offsets |-> checked.corrected_offsets,
     masks |-> checked.valid_access_mask,
     invalid_access_masks |-> checked.invalid_access_mask,
     original_offsets |-> checked.offsets,
     original_mask |-> mask]

access_record(kind, checked, mask) ==
    [kind |-> kind,
     ptr |-> checked.tensor_ptr.ptr,
     offsets |-> checked.corrected_offsets,
     masks |-> [i \in 1..Len(mask) |-> checked.valid_access_mask[i] /\ mask[i]],
     invalid_access_masks |-> checked.invalid_access_mask,
     original_offsets |-> checked.offsets,
     original_mask |-> mask]

masked_access(kind, ptrs, mask) ==
    /\ call' = kind
    /\ IF bounds_lookup(ptrs).kind = "IndexError"
       THEN launches' = launches /\ err' = "IndexError"
       ELSE add_record_at(access_record(kind, bounds_lookup(ptrs), mask), grid_idx)
    /\ ret' = NoRet
    /\ UNCHANGED <<sampling_grid_idx, grid_idx, grid_dim>>

(***************************************************************************)
(* _check_storage_contiguous.  A tensor argument is a record with its      *)
(* data_ptr, shape, stride (in elements) and element_size.                 *)
(***************************************************************************)
Arg(data_ptr, shape, stride, element_size) ==
    [data_ptr |-> data_ptr, shape |-> shape, stride |-> stride,
     element_size |-> element_size]

\* sorted(range(n), key=stride.__getitem__): stable insertion of index j
RECURSIVE insert_by_stride(_, _, _)
insert_by_stride(indices, j, stride) ==
    IF indices = <<>> THEN <<j>>
    ELSE IF stride[Last(indices)] <= stride[j]
         THEN Append(indices, j)
         ELSE Append(insert_by_stride(SubSeq(indices, 1, Len(indices) - 1), j, stride),
                     Last(indices))

RECURSIVE sorted_indices(_, _)
sorted_indices(n, stride) ==
    IF n = 0 THEN <<>>
    ELSE insert_by_stride(sorted_indices(n - 1, stride), n, stride)

\* contiguous_scan with shape_prod never multiplied by the extent
RECURSIVE contiguous_scan_unit_prod(_, _, _, _, _)
contiguous_scan_unit_prod(shape, stride, indices, i, shape_prod) ==
    IF i > Len(indices) THEN TRUE
    ELSE IF i = 1 /\ stride[indices[i]] # 1 THEN FALSE
    ELSE IF i # 1 /\ stride[indices[i]] # shape_prod THEN FALSE
    ELSE contiguous_scan_unit_prod(shape, stride, indices, i + 1, shape_prod)

\* the for loop of _check_storage_contiguous at position i (1-based) of indices
RECURSIVE contiguous_scan(_, _, _, _, _)
contiguous_scan(shape, stride, indices, i, shape_prod) ==
    IF i > Len(indices) THEN TRUE
    ELSE IF i = 1 /\ stride[indices[i]] # 1 THEN FALSE
    ELSE IF i # 1 /\ stride[indices[i]] # shape_prod THEN FALSE
    ELSE contiguous_scan(shape, stride, indices, i + 1, shape_prod * shape[indices[i]])

\* check_storage_contiguous looking at the smallest stride only
check_smallest_stride_only(tensor) ==
    IF tensor.stride = <<>> THEN TRUE
    ELSE tensor.stride[sorted_indices(Len(tensor.stride), tensor.stride)[1]] = 1

check_storage_contiguous(tensor) ==
    contiguous_scan(tensor.shape, tensor.stride,
                    sorted_indices(Len(tensor.stride), tensor.stride), 1, 1)

\* a call of _check_storage_contiguous(tensor); the argument is kept with the
\* returned value
call_check_storage_contiguous(tensor) ==
    /\ call' = "_check_storage_contiguous"
    /\ err' = "ok"
    /\ ret' = [kind |-> "Bool", value |-> check_storage_contiguous(tensor),
               tensor |-> tensor]
    /\ UNCHANGED <<launches, sampling_grid_idx, grid_idx, grid_dim>>

(***************************************************************************)
(* _grid_executor_call, one step per statement that touches the recorder.  *)
(* The kernel instance self.fn is a program: a sequence of operations,     *)
(* each a compute operation or a masked load or store whose addresses are  *)
(* base + step * program_id(0) + offs[i].  frame.log is a history          *)
(* variable: every record handed to the recorder, with the cell of the     *)
(* loop it was handed over in.                                             *)
(***************************************************************************)
\* grid + (1,) * (3 - len(grid))
pad_grid(grid) ==
    [k \in 1..3 |-> IF k <= Len(grid) THEN grid[k] ELSE 1]

\* next_cell with the loops over y and z exchanged
next_cell_y_innermost(c, grid) ==
    IF c[2] + 1 < grid[2] THEN <<c[1], c[2] + 1, c[3]>>
    ELSE IF c[3] + 1 < grid[3] THEN <<c[1], 0, c[3] + 1>>
    ELSE <<c[1] + 1, 0, 0>>

\* the cell after c in the nest: for x: for y: for z
next_cell(c, grid) ==
    IF c[3] + 1 < grid[3] THEN <<c[1], c[2], c[3] + 1>>
    ELSE IF c[2] + 1 < grid[2] THEN <<c[1], c[2] + 1, 0>>
    ELSE <<c[1] + 1, 0, 0>>

\* the first cell of the nest; (grid[1], 0, 0) stands for a nest with no cell left
first_cell(grid) ==
    IF grid[1] > 0 /\ grid[2] > 0 /\ grid[3] > 0 THEN <<0, 0, 0>>
    ELSE <<grid[1], 0, 0>>

op_ptrs(op, cell) ==
    [i \in 1..Len(op.offs) |-> op.base + op.step * cell[1] + op.offs[i]]

logged(record) == Append(frame.log, [cell |-> frame.cell, record |-> record])

grid_executor_call(args_dev, grid, fn, warmup) ==
    /\ pc = "idle"
    /\ frame' = [NoFrame EXCEPT !.args = args_dev, !.grid = grid, !.prog = fn,
                                !.warmup = warmup]
    /\ pc' = IF warmup THEN "done" ELSE "args"
    /\ UNCHANGED <<launches, sampling_grid_idx, grid_idx, grid_dim, err, ret, call>>

\* convert_arg without the contiguity assertion: every tensor argument is kept
convert_arg_unchecked ==
    /\ pc = "args"
    /\ IF frame.i > Len(frame.args)
       THEN /\ pc' = "grid"
            /\ UNCHANGED <<frame, err>>
       ELSE /\ pc' = "args"
            /\ frame' = [frame EXCEPT
                   !.i = @ + 1,
                   !.tensors = Append(@, Tensor(frame.args[frame.i].data_ptr,
                                                frame.args[frame.i].stride,
                                                frame.args[frame.i].shape,
                                                frame.args[frame.i].element_size))]
            /\ UNCHANGED err
    /\ UNCHANGED <<launches, sampling_grid_idx, grid_idx, grid_dim, ret, call>>

\* one iteration of the loop over the arguments
convert_arg ==
    /\ pc = "args"
    /\ IF frame.i > Len(frame.args)
       THEN /\ pc' = "grid"
            /\ UNCHANGED <<frame, err>>
       ELSE IF ~check_storage_contiguous(frame.args[frame.i])
       THEN /\ pc' = "raised"
            /\ err' = "AssertionError"
            /\ UNCHANGED frame
       ELSE /\ pc' = "args"
            /\ frame' = [frame EXCEPT
                   !.i = @ + 1,
                   !.tensors = Append(@, Tensor(frame.args[frame.i].data_ptr,
                                                frame.args[frame.i].stride,
                                                frame.args[frame.i].shape,
                                                frame.args[frame.i].element_size))]
            /\ UNCHANGED err
    /\ UNCHANGED <<launches, sampling_grid_idx, grid_idx, grid_dim, ret, call>>

\* assert len(grid) <= 3, the padding, record_builder.set_grid_dim(*grid)
declare_grid ==
    /\ pc = "grid"
    /\ IF Len(frame.grid) > 3
       THEN /\ pc' = "raised"
            /\ err' = "AssertionError"
            /\ UNCHANGED <<frame, launches, sampling_grid_idx, grid_idx, grid_dim,
                           ret, call>>
       ELSE /\ set_grid_dim(pad_grid(frame.grid)[1], pad_grid(frame.grid)[2],
                            pad_grid(frame.grid)[3])
            /\ frame' = [frame EXCEPT !.grid = pad_grid(frame.grid),
                                      !.cell = first_cell(pad_grid(frame.grid))]
            /\ pc' = "add_tensors"

register_tensors ==
    /\ pc = "add_tensors"
    /\ add_tensors(frame.tensors)
    /\ pc' = "sort"
    /\ UNCHANGED frame

finalize_tensors ==
    /\ pc = "sort"
    /\ sort_tensor_handles
    /\ pc' = "loop"
    /\ UNCHANGED frame

\* enter_cell with set_grid_idx called for the first cell of the launch only
enter_cell_marker_once ==
    /\ pc = "loop"
    /\ IF frame.cell[1] < frame.grid[1]
       THEN IF frame.log = <<>>
            THEN /\ set_grid_idx(frame.cell[1], frame.cell[2], frame.cell[3])
                 /\ pc' = IF err' = "ok" THEN "fn" ELSE "raised"
                 /\ frame' = [frame EXCEPT !.k = 1, !.log = logged(Grid(frame.cell))]
            ELSE /\ pc' = "fn"
                 /\ frame' = [frame EXCEPT !.k = 1]
                 /\ UNCHANGED <<launches, sampling_grid_idx, grid_idx, grid_dim,
                                err, ret, call>>
       ELSE /\ pc' = "done"
            /\ UNCHANGED <<frame, launches, sampling_grid_idx, grid_idx, grid_dim,
                           err, ret, call>>

\* the head of the loop nest: the next cell is entered, or the call returns
enter_cell ==
    /\ pc = "loop"
    /\ IF frame.cell[1] < frame.grid[1]
       THEN /\ set_grid_idx(frame.cell[1], frame.cell[2], frame.cell[3])
            /\ pc' = IF err' = "ok" THEN "fn" ELSE "raised"
            /\ frame' = [frame EXCEPT !.k = 1, !.log = logged(Grid(frame.cell))]
       ELSE /\ pc' = "done"
            /\ UNCHANGED <<frame, launches, sampling_grid_idx, grid_idx, grid_dim,
                           err, ret, call>>

\* self.fn(**call_args): the next operation of the kernel instance
run_op ==
    /\ pc = "fn"
    /\ frame.k <= Len(frame.prog)
    /\ LET op == frame.prog[frame.k]
       IN  IF op.op \in {"Load", "Store"}
           THEN /\ masked_access(op.op, op_ptrs(op, frame.cell), op.mask)
                /\ pc' = IF err' = "ok" THEN "fn" ELSE "raised"
                /\ frame' =
                      IF bounds_lookup(op_ptrs(op, frame.cell)).kind = "IndexError"
                      THEN frame
                      ELSE [frame EXCEPT
                              !.k = @ + 1,
                              !.log = logged(access_record(op.op,
                                          bounds_lookup(op_ptrs(op, frame.cell)),
                                          op.mask))]
           ELSE /\ add_record([kind |-> op.op])
                /\ pc' = "fn"
                /\ frame' = [frame EXCEPT !.k = @ + 1,
                                          !.log = logged([kind |-> op.op])]

\* the kernel instance returns; the nest moves to the next cell
end_cell ==
    /\ pc = "fn"
    /\ frame.k > Len(frame.prog)
    /\ pc' = "loop"
    /\ frame' = [frame EXCEPT !.cell = next_cell(frame.cell, frame.grid)]
    /\ UNCHANGED <<launches, sampling_grid_idx, grid_idx, grid_dim, err, ret, call>>

(***************************************************************************)
(* Spec: one recorder session, its operations called in any order with     *)
(* arguments from a few representative values.                             *)
(***************************************************************************)
SessionShapes == {<<1, 1, 1>>, <<2, 1, 2>>}
SessionIdx == {<<0, 0, 0>>, <<1, 0, 1>>, <<2, 0, 0>>, <<0 - 1, 0, 0>>}
SessionTargets == {<<1, 0, 1>>}
SessionTensors == {Tensor(20, <<1>>, <<2>>, 4), Tensor(10, <<1>>, <<2>>, 4)}
SessionPtrs == {5, 25}
SessionRecords == {[kind |-> "BinaryOp"]}

RECURSIVE SumLen(_, _)
SumLen(ls, field) ==
    IF ls = <<>> THEN 0
    ELSE Len(ls[1][field]) + SumLen(Tail(ls), field)

RecordsLeft == MaxRecords - SumLen(launches, "records")
TensorsLeft == MaxTensors - SumLen(launches, "tensors")

Init ==
    /\ launches = <<>>
    /\ sampling_grid_idx = NoneVal
    /\ grid_idx = <<0, 0, 0>>
    /\ grid_dim = <<1, 1, 1>>
    /\ err = "ok"
    /\ ret = NoRet
    /\ call = "__init__"
    /\ pc = "idle"
    /\ frame = NoFrame

CallReset == reset /\ UNCHANGED dvars

CallSetSampling ==
    \E idx \in SessionTargets : set_sampling_grid_idx(idx) /\ UNCHANGED dvars

CallSetGridDim ==
    /\ Len(launches) < MaxLaunches
    /\ \E s \in SessionShapes : set_grid_dim(s[1], s[2], s[3])
    /\ UNCHANGED dvars

CallSetGridIdx ==
    /\ RecordsLeft > 0
    /\ \E i \in SessionIdx : set_grid_idx(i[1], i[2], i[3])
    /\ UNCHANGED dvars

CallAddRecord ==
    /\ RecordsLeft > 0
    /\ \E r \in SessionRecords : add_record(r)
    /\ UNCHANGED dvars

CallAddTensor ==
    /\ TensorsLeft > 0
    /\ \E t \in SessionTensors : add_tensor(t)
    /\ UNCHANGED dvars

CallAddTensors ==
    /\ TensorsLeft > 1
    /\ \E t \in SessionTensors, u \in SessionTensors : add_tensors(<<t, u>>)
    /\ UNCHANGED dvars

CallSortTensorHandles == sort_tensor_handles /\ UNCHANGED dvars

CallGetTensorPtr ==
    \E p \in SessionPtrs : get_tensor_ptr(p) /\ UNCHANGED dvars

Next ==
    \/ CallReset
    \/ CallSetSampling
    \/ CallSetGridDim
    \/ CallSetGridIdx
    \/ CallAddRecord
    \/ CallAddTensor
    \/ CallAddTensors
    \/ CallSortTensorHandles
    \/ CallGetTensorPtr

Spec == Init /\ [][Next]_vars

(***************************************************************************)
(* FilterSpec: one launch of any shape, any sampling target, and calls of  *)
(* set_grid_idx and add_record up to the first record the launch keeps.    *)
(***************************************************************************)
NoRecordYet == IF launches = <<>> THEN TRUE ELSE Last(launches).records = <<>>

FilterSetSampling ==
    /\ NoRecordYet
    /\ \E idx \in SamplingTargets : set_sampling_grid_idx(idx)
    /\ UNCHANGED dvars

FilterSetGridDim ==
    /\ launches = <<>>
    /\ \E s \in Shapes : set_grid_dim(s[1], s[2], s[3])
    /\ UNCHANGED dvars

FilterSetGridIdx ==
    /\ NoRecordYet
    /\ \E x \in IdxArgs, y \in IdxArgs, z \in IdxArgs : set_grid_idx(x, y, z)
    /\ UNCHANGED dvars

FilterAddRecord ==
    /\ NoRecordYet
    /\ \E r \in OpRecords : add_record(r)
    /\ UNCHANGED dvars

FilterNext ==
    \/ FilterSetSampling
    \/ FilterSetGridDim
    \/ FilterSetGridIdx
    \/ FilterAddRecord

FilterSpec == Init /\ [][FilterNext]_vars

(***************************************************************************)
(* RegistrySpec: one launch, its tensor registry and the lookups against   *)
(* it.  A lookup's result stays in ret until the caller takes it.          *)
(***************************************************************************)
ScenarioTensor == Tensor(1000, <<4, 1>>, <<4, 4>>, 4)
ScenarioPtrs == <<1000, 1032, 1064, 2000>>

RegTensors ==
    {Tensor(10, <<1>>, <<2>>, 4),
     Tensor(20, <<2, 1>>, <<2, 2>>, 2),
     Tensor(20, <<1>>, <<3>>, 4),
     Tensor(30, <<1>>, <<1>>, 4),
     ScenarioTensor}

RegPtrs == {5, 10, 17, 18, 20, 31, 40}

RECURSIVE SeqsUpTo(_, _)
SeqsUpTo(S, n) ==
    IF n = 0 THEN {<<>>}
    ELSE LET shorter == SeqsUpTo(S, n - 1)
         IN  shorter \cup {Append(q, e) : q \in shorter, e \in S}

RegBatches == SeqsUpTo(RegPtrs, MaxBatch) \cup {ScenarioPtrs}

Idle == ret = NoRet

RegSetGridDim ==
    /\ Idle
    /\ launches = <<>>
    /\ set_grid_dim(1, 1, 1)
    /\ UNCHANGED dvars

RegAddTensor ==
    /\ Idle
    /\ IF launches = <<>> THEN TRUE ELSE Len(Last(launches).tensors) < MaxTensors
    /\ \E t \in RegTensors : add_tensor(t)
    /\ UNCHANGED dvars

RegSortTensorHandles ==
    /\ Idle
    /\ sort_tensor_handles
    /\ UNCHANGED dvars

RegGetTensorPtr ==
    /\ Idle
    /\ \E p \in RegPtrs : get_tensor_ptr(p)
    /\ UNCHANGED dvars

RegCheckOutOfBounds ==
    /\ Idle
    /\ \E ptrs \in RegBatches : check_out_of_bounds_access(ptrs)
    /\ UNCHANGED dvars

\* the caller has taken the returned value
RegReturn ==
    /\ ~Idle
    /\ ret' = NoRet
    /\ UNCHANGED <<launches, sampling_grid_idx, grid_idx, grid_dim, err, call>>
    /\ UNCHANGED dvars

RegistryNext ==
    \/ RegSetGridDim
    \/ RegAddTensor
    \/ RegSortTensorHandles
    \/ RegGetTensorPtr
    \/ RegCheckOutOfBounds
    \/ RegReturn

RegistrySpec == Init /\ [][RegistryNext]_vars

(***************************************************************************)
(* DriverSpec: one call of _grid_executor_call, on a fresh recorder or on  *)
(* the recorder an earlier call left, with the sampling target set before  *)
(* the call.                                                               *)
(***************************************************************************)
ArgA == Arg(10, <<2>>, <<1>>, 4)
ArgB == Arg(20, <<2, 2>>, <<2, 1>>, 2)
ArgStrided == Arg(30, <<2, 2>>, <<4, 1>>, 4)
DriverArgs == {<<>>, <<ArgA>>, <<ArgB, ArgA>>, <<ArgA, ArgStrided>>}

Access(kind, base, step, offs, mask) ==
    [op |-> kind, base |-> base, step |-> step, offs |-> offs, mask |-> mask]

ComputeKernel == <<[op |-> "BinaryOp"]>>
MemoryKernel ==
    <<Access("Load", 10, 4, <<0, 4>>, <<TRUE, TRUE>>),
      [op |-> "BinaryOp"],
      Access("Store", 20, 4, <<0, 4>>, <<TRUE, FALSE>>)>>
EmptyLoadKernel == <<Access("Load", 10, 0, <<>>, <<>>)>>
Kernels == {ComputeKernel, MemoryKernel, EmptyLoadKernel}

DriverGrids ==
    {<<nx>> : nx \in Dims}
        \cup {<<nx, ny>> : nx \in Dims, ny \in Dims}
        \cup Shapes
        \cup {<<0>>, <<1, 1, 1, 1>>}

\* what the call with grid (2,2), arguments (ArgB, ArgA) and ComputeKernel leaves
EarlierLaunch ==
    Launch(<<2, 2, 1>>,
           <<Tensor(10, <<1>>, <<2>>, 4), Tensor(20, <<2, 1>>, <<2, 2>>, 2)>>,
           <<Grid(<<0, 0, 0>>), [kind |-> "BinaryOp"],
             Grid(<<0, 1, 0>>), [kind |-> "BinaryOp"],
             Grid(<<1, 0, 0>>), [kind |-> "BinaryOp"],
             Grid(<<1, 1, 0>>), [kind |-> "BinaryOp"]>>)

DriverInit ==
    \/ Init
    \/ /\ launches = <<EarlierLaunch>>
       /\ sampling_grid_idx = NoneVal
       /\ grid_idx = <<1, 1, 0>>
       /\ grid_dim = <<2, 2, 1>>
       /\ err = "ok"
       /\ ret = NoRet
       /\ call = "add_record"
       /\ pc = "idle"
       /\ frame = NoFrame

DrvSetSampling ==
    /\ pc = "idle"
    /\ \E idx \in SamplingTargets : set_sampling_grid_idx(idx)
    /\ UNCHANGED dvars

DrvCall ==
    \E args_dev \in DriverArgs, grid \in DriverGrids, fn \in Kernels, warmup \in BOOLEAN :
        grid_executor_call(args_dev, grid, fn, warmup)

DriverNext ==
    \/ DrvSetSampling
    \/ DrvCall
    \/ convert_arg
    \/ declare_grid
    \/ register_tensors
    \/ finalize_tensors
    \/ enter_cell
    \/ run_op
    \/ end_cell

DriverSpec == DriverInit /\ [][DriverNext]_vars

(***************************************************************************)
(* LayoutSpec: _check_storage_contiguous called on every shape and stride  *)
(* of equal length up to MaxRank, the extents and strides drawn from a few *)
(* values.                                                                 *)
(***************************************************************************)
LayoutExtents == {0, 1, 2, 4}
LayoutStrides == {0, 1, 2, 4, 8}

LayoutCheck ==
    /\ Idle
    /\ \E n \in 0..MaxRank :
          \E shape \in [1..n -> LayoutExtents], stride \in [1..n -> LayoutStrides] :
              call_check_storage_contiguous(Arg(0, shape, stride, 4))
    /\ UNCHANGED dvars

\* the caller has taken the returned value
LayoutReturn ==
    /\ ~Idle
    /\ ret' = NoRet
    /\ UNCHANGED <<launches, sampling_grid_idx, grid_idx, grid_dim, err, call>>
    /\ UNCHANGED dvars

LayoutNext ==
    \/ LayoutCheck
    \/ LayoutReturn

LayoutSpec == Init /\ [][LayoutNext]_vars

(***************************************************************************)
(* Claims.                                                                 *)
(***************************************************************************)
InRange(idx, dim) == \A k \in 1..3 : 0 <= idx[k] /\ idx[k] < dim[k]

\* C1: with an active launch, set_grid_idx(x, y, z) succeeds and sets the active
\* index to (x, y, z) when every component lies in [0, extent), and fails with a
\* range error when any component is out of range, a negative one included.
C1_SetGridIdxChecksRange ==
    [][\A i \in SessionIdx :
          (launches # <<>> /\ set_grid_idx(i[1], i[2], i[3]))
              => IF InRange(i, grid_dim)
                 THEN err' = "ok" /\ grid_idx' = i
                 ELSE err' = "AssertionError"]_vars

\* C2: each component of the active grid index is at least 0 and less than the
\* same component of the active grid shape in every reachable state; in
\* particular, from a state where this holds, declaring a new launch, of a
\* smaller shape included, leads to a state where it still holds.
C2_GridIdxWithinGridDimAfterSetGridDim ==
    [][\A s \in SessionShapes :
          (InRange(grid_idx, grid_dim) /\ set_grid_dim(s[1], s[2], s[3]))
              => InRange(grid_idx', grid_dim')]_vars

\* flatten of the specification, over the active grid shape
Flatten(idx, dim) ==
    IF Len(idx) = 1 THEN idx[1]
    ELSE IF Len(idx) = 2 THEN idx[1] * dim[2] + idx[2]
    ELSE idx[1] * dim[2] * dim[3] + idx[2] * dim[3] + idx[3]

Sampled(idx) ==
    IF sampling_grid_idx = NoneVal THEN TRUE
    ELSE Flatten(idx, grid_dim) = Flatten(sampling_grid_idx, grid_dim)

AppendedIffSampled(record, idx) ==
    IF Sampled(idx)
    THEN launches' = [launches EXCEPT ![Len(launches)].records = Append(@, record)]
    ELSE launches' = launches

\* C3: with an active launch, add_record appends the record to the active launch
\* if and only if no sampling target is set or the flattened active index equals
\* the flattened target; the Grid marker of set_grid_idx goes through the same
\* rule, with the index just set.
C3_AppendIffSampled ==
    [][/\ \A r \in OpRecords :
             (launches # <<>> /\ add_record(r)) => AppendedIffSampled(r, grid_idx)
       /\ \A x \in IdxArgs, y \in IdxArgs, z \in IdxArgs :
             (launches # <<>> /\ set_grid_idx(x, y, z) /\ err' = "ok")
                 => AppendedIffSampled(Grid(<<x, y, z>>), <<x, y, z>>)]_vars

\* C3 witness: under the target (0,1) of a (2,2,1) grid, cell (0,1,0) was entered
\* while another target filtered its Grid marker, and an operation record was
\* then kept.
C3_Witness ==
    /\ launches # <<>>
    /\ grid_dim = <<2, 2, 1>>
    /\ sampling_grid_idx = <<0, 1>>
    /\ grid_idx = <<0, 1, 0>>
    /\ Last(launches).records = <<[kind |-> "BinaryOp"]>>
    /\ call = "add_record"

\* the records of the log entries handed over in the given cell, in order
RECURSIVE RecordsOfCell(_, _)
RecordsOfCell(log, cell) ==
    IF log = <<>> THEN <<>>
    ELSE IF log[1].cell = cell
         THEN <<log[1].record>> \o RecordsOfCell(Tail(log), cell)
         ELSE RecordsOfCell(Tail(log), cell)

\* C4: when a launch over a grid (nx, ny, 1) has run to its end under a
\* two-component sampling target (a, b) with a < nx and b < ny, its record list
\* is exactly what was handed over in cell (a, b, 0), that cell's Grid marker
\* first: no other cell contributed a record, not even its Grid marker.
C4_OnlySampledCellRecords ==
    (/\ pc = "done"
     /\ ~frame.warmup
     /\ Len(sampling_grid_idx) = 2
     /\ frame.grid[3] = 1
     /\ sampling_grid_idx[1] < frame.grid[1]
     /\ sampling_grid_idx[2] < frame.grid[2])
        => LET target == <<sampling_grid_idx[1], sampling_grid_idx[2], 0>>
               kept == RecordsOfCell(frame.log, target)
           IN  /\ Last(launches).records = kept
               /\ kept # <<>>
               /\ kept[1] = Grid(target)
               /\ \A i \in 2..Len(kept) : kept[i].kind # "Grid"

\* C4 witness: the launch over (2,2,1) under target (0,1) has ended with the
\* marker of cell (0,1,0) and that cell's three operation records.
C4_Witness ==
    /\ pc = "done"
    /\ sampling_grid_idx = <<0, 1>>
    /\ frame.grid = <<2, 2, 1>>
    /\ Len(frame.log) = 16
    /\ Len(Last(launches).records) = 4
    /\ Last(launches).records[1] = Grid(<<0, 1, 0>>)
    /\ Last(launches).records[4].kind = "Store"

EarlierLaunchesUnchanged ==
    /\ Len(launches') = Len(launches)
    /\ \A i \in 1..(Len(launches) - 1) : launches'[i] = launches[i]

\* C5: set_grid_dim appends exactly one launch, with the given shape and empty
\* tensor and record lists; registering tensors, sorting them and appending
\* records leave every earlier launch as it was.
C5_OnlyActiveLaunchChanges ==
    [][/\ \A s \in SessionShapes :
             set_grid_dim(s[1], s[2], s[3])
                 => launches' = Append(launches,
                                       [grid |-> s, tensors |-> <<>>, records |-> <<>>])
       /\ (CallAddTensor \/ CallAddTensors \/ CallSortTensorHandles
              \/ CallAddRecord \/ CallSetGridIdx)
             => EarlierLaunchesUnchanged]_vars

\* C5 witness: two launches, each holding a tensor and a record.
C5_Witness ==
    /\ Len(launches) = 2
    /\ launches[1].tensors # <<>> /\ launches[1].records # <<>>
    /\ launches[2].tensors # <<>> /\ launches[2].records # <<>>

IsSortedByPtr(s) == \A i \in 1..(Len(s) - 1) : s[i].ptr <= s[i + 1].ptr

Count(s, e) == Cardinality({i \in 1..Len(s) : s[i] = e})

IsPermutation(s, t) ==
    /\ Len(s) = Len(t)
    /\ \A i \in 1..Len(s) : Count(s, s[i]) = Count(t, s[i])

\* C6: whatever the order of registration, sort_tensor_handles leaves the active
\* launch's tensor list a permutation of the registered tensors, ascending by
\* base address.
C6_SortYieldsSortedPermutation ==
    [][(launches # <<>> /\ sort_tensor_handles)
          => /\ IsSortedByPtr(Last(launches').tensors)
             /\ IsPermutation(Last(launches').tensors, Last(launches).tensors)]_vars

\* C6 witness: a sort has left a list of distinct base addresses.
C6_Witness ==
    /\ call = "sort_tensor_handles"
    /\ err = "ok"
    /\ Len(Last(launches).tensors) >= 2
    /\ Last(launches).tensors[1].ptr < Last(launches).tensors[2].ptr

\* C7: in every run of the launch driver, whenever a kernel instance is running,
\* which is when pointers are resolved, the active launch's tensor list is
\* sorted ascending by base address and holds every tensor of the call: all were
\* registered and sorted before the first cell was entered.
C7_SortedBeforeResolution ==
    pc = "fn"
        => /\ launches # <<>>
           /\ IsSortedByPtr(Last(launches).tensors)
           /\ IsPermutation(Last(launches).tensors, frame.tensors)

\* C7 witness: a load has been resolved in a launch whose tensors were passed in
\* descending order of base address.
C7_Witness ==
    /\ pc = "fn"
    /\ call = "Load"
    /\ err = "ok"
    /\ Len(frame.tensors) = 2
    /\ frame.tensors[1].ptr > frame.tensors[2].ptr

\* t is the floor of ptr in the sorted list ts, or its first tensor when ptr is
\* below every base address
IsFloor(t, ts, ptr) ==
    IF \E i \in 1..Len(ts) : ts[i].ptr <= ptr
    THEN /\ \E i \in 1..Len(ts) : ts[i] = t
         /\ t.ptr <= ptr
         /\ \A i \in 1..Len(ts) : ts[i].ptr <= ptr => ts[i].ptr <= t.ptr
    ELSE t = ts[1]

\* C8: on a non-empty tensor list sorted by base address, get_tensor_ptr(ptr)
\* returns the tensor with the greatest base address <= ptr (so the one whose
\* base is ptr when there is one), the first tensor when ptr is below every
\* base address, and never raises.
C8_GetTensorPtrIsFloor ==
    [][\A p \in RegPtrs :
          (/\ launches # <<>>
           /\ Last(launches).tensors # <<>>
           /\ IsSortedByPtr(Last(launches).tensors)
           /\ get_tensor_ptr(p))
              => /\ err' = "ok"
                 /\ ret'.kind = "Tensor"
                 /\ IsFloor(ret'.tensor, Last(launches).tensors, p)
                 /\ \A i \in 1..Len(Last(launches).tensors) :
                       Last(launches).tensors[i].ptr = p => ret'.tensor.ptr = p]_vars

\* C8 witness: a lookup in a sorted list has returned its second tensor.
C8_Witness ==
    /\ call = "get_tensor_ptr"
    /\ ret.kind = "Tensor"
    /\ Len(Last(launches).tensors) >= 2
    /\ IsSortedByPtr(Last(launches).tensors)
    /\ Last(launches).tensors[1].ptr < Last(launches).tensors[2].ptr
    /\ ret.tensor = Last(launches).tensors[2]

Extent(t) == prod(t.shape) * t.element_size

\* C9: for a non-empty batch, check_out_of_bounds_access returns, for every
\* element, offset = address - base, valid = (0 <= offset < extent), invalid =
\* not valid and corrected = offset where valid, 0 otherwise, with extent =
\* product(shape) * element_size of the resolved tensor; for base 1000, shape
\* (4,4), element size 4 and addresses [1000,1032,1064,2000] it returns offsets
\* [0,32,64,1000], valid [T,T,F,F], invalid [F,F,T,T], corrected [0,32,0,0].
C9_BoundsMasks ==
    [][\A ptrs \in RegBatches :
          (check_out_of_bounds_access(ptrs) /\ err' = "ok")
              => /\ \A i \in 1..Len(ptrs) :
                      LET raw == ptrs[i] - ret'.tensor_ptr.ptr
                          valid == 0 <= raw /\ raw < Extent(ret'.tensor_ptr)
                      IN  /\ ret'.offsets[i] = raw
                          /\ ret'.valid_access_mask[i] = valid
                          /\ ret'.invalid_access_mask[i] = ~valid
                          /\ ret'.corrected_offsets[i] = IF valid THEN raw ELSE 0
                          /\ \/ ret'.corrected_offsets[i] = 0
                             \/ /\ 0 <= ret'.corrected_offsets[i]
                                /\ ret'.corrected_offsets[i] < Extent(ret'.tensor_ptr)
                 /\ (ptrs = ScenarioPtrs /\ Last(launches).tensors = <<ScenarioTensor>>)
                       => /\ ret'.offsets = <<0, 32, 64, 1000>>
                          /\ ret'.valid_access_mask = <<TRUE, TRUE, FALSE, FALSE>>
                          /\ ret'.invalid_access_mask = <<FALSE, FALSE, TRUE, TRUE>>
                          /\ ret'.corrected_offsets = <<0, 32, 0, 0>>]_vars

\* C9 witness: the scenario's batch has been checked against the scenario's tensor.
C9_Witness ==
    /\ call = "check_out_of_bounds_access"
    /\ ret.kind = "Bounds"
    /\ ret.tensor_ptr = ScenarioTensor
    /\ ret.offsets = <<0, 32, 64, 1000>>

\* C10: with an active launch holding at least one tensor,
\* check_out_of_bounds_access raises exactly when the batch is empty; for any
\* other batch it returns masks of the batch's length, wherever the addresses lie.
C10_BoundsCheckFailsOnlyOnEmptyBatch ==
    [][\A ptrs \in RegBatches :
          (/\ launches # <<>>
           /\ Last(launches).tensors # <<>>
           /\ check_out_of_bounds_access(ptrs))
              => IF ptrs = <<>>
                 THEN err' = "IndexError"
                 ELSE /\ err' = "ok"
                      /\ ret'.kind = "Bounds"
                      /\ Len(ret'.valid_access_mask) = Len(ptrs)
                      /\ Len(ret'.invalid_access_mask) = Len(ptrs)]_vars

\* C10 witness: a batch with one address below the resolved tensor's base and one
\* beyond its extent has been checked and masks were returned.
C10_Witness ==
    /\ call = "check_out_of_bounds_access"
    /\ err = "ok"
    /\ ret.kind = "Bounds"
    /\ \E i \in 1..Len(ret.offsets) : ret.offsets[i] < 0
    /\ \E i \in 1..Len(ret.offsets) : ret.offsets[i] >= Extent(ret.tensor_ptr)

\* the place of dimension k when the dimensions are put in ascending order of
\* stride, dimensions of equal stride in the order of their positions
PlaceInOrder(stride, k) ==
    1 + Cardinality({j \in 1..Len(stride) :
                        \/ stride[j] < stride[k]
                        \/ stride[j] = stride[k] /\ j < k})

AscendingOrder(stride) ==
    [i \in 1..Len(stride) |->
        CHOOSE k \in 1..Len(stride) : PlaceInOrder(stride, k) = i]

\* the product of the extents of the dimensions walked before position i
RECURSIVE ExtentsBefore(_, _, _)
ExtentsBefore(shape, p, i) ==
    IF i <= 1 THEN 1 ELSE shape[p[i - 1]] * ExtentsBefore(shape, p, i - 1)

WalkAccepts(shape, stride, p) ==
    \A i \in 1..Len(p) :
        stride[p[i]] = IF i = 1 THEN 1 ELSE ExtentsBefore(shape, p, i)

\* C11: _check_storage_contiguous returns true if and only if, with the
\* dimensions walked in ascending order of stride, the first has stride 1 and
\* every later one has a stride equal to the product of the extents of the
\* dimensions before it; shape (4,4) with strides (4,1) is accepted and shape
\* (4,4) with strides (8,2) is rejected.
C11_ContiguousIffStridesArePrefixProducts ==
    [][(call' = "_check_storage_contiguous" /\ ret'.kind = "Bool")
          => LET shape == ret'.tensor.shape
                 stride == ret'.tensor.stride
             IN  /\ Len(shape) = Len(stride)
                 /\ ret'.value <=> WalkAccepts(shape, stride, AscendingOrder(stride))
                 /\ (shape = <<4, 4>> /\ stride = <<4, 1>>) => ret'.value = TRUE
                 /\ (shape = <<4, 4>> /\ stride = <<8, 2>>) => ret'.value = FALSE]_vars

\* C11 witness: shape (4,4) with strides (4,1) has been accepted.
C11_Witness ==
    /\ call = "_check_storage_contiguous"
    /\ ret.kind = "Bool"
    /\ ret.tensor.shape = <<4, 4>>
    /\ ret.tensor.stride = <<4, 1>>
    /\ ret.value = TRUE

HasNonContiguousArg(f) ==
    \E i \in 1..Len(f.args) : ~check_storage_contiguous(f.args[i])

\* what every step of an invocation one of whose tensor arguments fails the
\* validator does: it stays in the argument loop or raises the assertion, and it
\* leaves the launches as they were
AbortsWithoutTrace ==
    /\ pc' \in {"args", "raised"}
    /\ launches' = launches
    /\ pc' = "raised" => err' = "AssertionError"
    /\ (/\ pc = "args"
        /\ frame.i <= Len(frame.args)
        /\ ~check_storage_contiguous(frame.args[frame.i])) => pc' = "raised"

\* C12 as stated: every invocation one of whose tensor arguments fails the
\* contiguity validator aborts with the assertion error, and no step of it
\* changes the launches, their tensor lists or their record lists.
C12_NonContiguousArgAborts ==
    [][(pc' # "idle" /\ HasNonContiguousArg(frame')) => AbortsWithoutTrace]_vars

\* C12 amended: an invocation that is not a warmup call and one of whose tensor
\* arguments fails the contiguity validator aborts with the assertion error,
\* and no step of it changes the launches, their tensor lists or their record
\* lists; a warmup call returns at once, whatever its arguments, and changes
\* nothing either.
C12_NonContiguousArgAbortsUnlessWarmup ==
    [][(pc' # "idle" /\ HasNonContiguousArg(frame'))
          => IF frame'.warmup
             THEN pc' = "done" /\ launches' = launches /\ err' = err
             ELSE AbortsWithoutTrace]_vars

\* C12 witness: the second argument failed the validator after the first had
\* been converted; the earlier launch is all the recorder holds.
C12_Witness ==
    /\ pc = "raised"
    /\ err = "AssertionError"
    /\ ~frame.warmup
    /\ HasNonContiguousArg(frame)
    /\ frame.tensors # <<>>
    /\ launches = <<EarlierLaunch>>

FailsWithoutEffect ==
    /\ err' = "IndexError"
    /\ UNCHANGED <<launches, sampling_grid_idx, grid_idx, grid_dim>>

\* C13: with no active launch, whatever the sampling target, add_tensor,
\* add_tensors, sort_tensor_handles, get_tensor_ptr, add_record and set_grid_idx
\* (here with an index inside the grid shape) each fail with the error of a
\* missing launch and leave the launches, the grid shape, the grid index and the
\* sampling target as they were.
C13_NoActiveLaunchFails ==
    [][launches = <<>>
          => /\ (CallAddTensor \/ CallAddTensors \/ CallSortTensorHandles
                    \/ CallGetTensorPtr \/ CallAddRecord) => FailsWithoutEffect
             /\ \A i \in SessionIdx :
                   (InRange(i, grid_dim) /\ set_grid_idx(i[1], i[2], i[3]))
                       => FailsWithoutEffect]_vars

\* the fields of a recorder right after construction
FreshRecorder ==
    /\ launches = <<>>
    /\ sampling_grid_idx = NoneVal
    /\ grid_idx = <<0, 0, 0>>
    /\ grid_dim = <<1, 1, 1>>

\* C14: from any reachable state, reset leaves no launch, the grid shape
\* (1,1,1), the grid index (0,0,0) and no sampling target, which is the state of
\* a freshly constructed recorder; a reset right after a reset changes none of
\* the four.
C14_ResetRestoresFreshState ==
    [][CallReset
          => /\ FreshRecorder'
             /\ call = "reset"
                   => UNCHANGED <<launches, sampling_grid_idx, grid_idx, grid_dim>>]_vars

\* C14 witness: a reset has been called and the recorder is as constructed.
C14_Witness ==
    /\ call = "reset"
    /\ err = "ok"
    /\ FreshRecorder

LexLess(a, b) ==
    \/ a[1] < b[1]
    \/ a[1] = b[1] /\ a[2] < b[2]
    \/ a[1] = b[1] /\ a[2] = b[2] /\ a[3] < b[3]

\* the cells of a grid, x outermost, then y, then z
CellsInOrder(grid) ==
    [k \in 1..(grid[1] * grid[2] * grid[3]) |->
        <<(k - 1) \div (grid[2] * grid[3]),
          ((k - 1) \div grid[3]) % grid[2],
          (k - 1) % grid[3]>>]

IsGrid(record) == record.kind = "Grid"

GridMarkers(records) == SelectSeq(records, IsGrid)

\* C15: within a launch the driver enters the cells in the order x outermost,
\* then y, then z: the first index set is (0,0,0), every later one is greater in
\* lexicographic order than the one before, and when the launch has ended with
\* no sampling target its Grid markers are those of all nx*ny*nz cells, each
\* once, in that order.
C15_CellsVisitedOnceInNestedOrder ==
    [][/\ (pc = "loop" /\ pc' = "fn")
             => /\ call' = "set_grid_idx"
                /\ IF frame.log = <<>>
                   THEN grid_idx' = <<0, 0, 0>>
                   ELSE LexLess(grid_idx, grid_idx')
       /\ (pc = "loop" /\ pc' = "done" /\ sampling_grid_idx = NoneVal)
             => LET markers == GridMarkers(Last(launches).records)
                IN  /\ Len(markers) = frame.grid[1] * frame.grid[2] * frame.grid[3]
                    /\ \A k \in 1..Len(markers) :
                          markers[k] = Grid(CellsInOrder(frame.grid)[k])]_vars

\* C15 witness: a launch over (2,2,2) with no sampling target has ended with
\* eight Grid markers, the last one of cell (1,1,1).
C15_Witness ==
    /\ pc = "done"
    /\ ~frame.warmup
    /\ sampling_grid_idx = NoneVal
    /\ frame.grid = <<2, 2, 2>>
    /\ grid_idx = <<1, 1, 1>>
    /\ Len(GridMarkers(Last(launches).records)) = 8

\* the multi-dimensional indices of a shape, each component from 0
IndexSpace(shape) ==
    {idx \in [1..Len(shape) -> UNION {0..(shape[k] - 1) : k \in 1..Len(shape)}] :
        \A k \in 1..Len(shape) : idx[k] < shape[k]}

\* sum(index_i * stride_i)
RECURSIVE ElementOffset(_, _, _)
ElementOffset(idx, stride, n) ==
    IF n = 0 THEN 0 ELSE idx[n] * stride[n] + ElementOffset(idx, stride, n - 1)

\* the map is onto 0 .. product(shape) - 1 from as many indices, hence
\* one-to-one
IsLinearAddressing(shape, stride) ==
    /\ {ElementOffset(idx, stride, Len(shape)) : idx \in IndexSpace(shape)}
           = 0..(prod(shape) - 1)
    /\ Cardinality(IndexSpace(shape)) = prod(shape)

\* C16: whenever _check_storage_contiguous accepts a shape with positive extents
\* and its strides, the map from the indices of the shape to
\* sum(index_i * stride_i) is one-to-one and onto 0 .. product(shape) - 1: no
\* offset is skipped and none is hit twice.
C16_AcceptedLayoutIsBijective ==
    [][(/\ call' = "_check_storage_contiguous"
        /\ ret'.kind = "Bool"
        /\ ret'.value
        /\ \A k \in 1..Len(ret'.tensor.shape) : ret'.tensor.shape[k] > 0)
          => IsLinearAddressing(ret'.tensor.shape, ret'.tensor.stride)]_vars

\* C16 witness: the permuted three-dimensional layout of shape (2,4,2) with
\* strides (8,1,4) has been accepted.
C16_Witness ==
    /\ call = "_check_storage_contiguous"
    /\ ret.kind = "Bool"
    /\ ret.value
    /\ ret.tensor.shape = <<2, 4, 2>>
    /\ ret.tensor.stride = <<8, 1, 4>>

\* address a lies inside the extent of tensor t
Inside(a, t) == t.ptr <= a /\ a < t.ptr + Extent(t)

\* C17: check_out_of_bounds_access resolves one tensor, from the first address
\* of the batch alone (on a sorted registry: the floor of that address), and
\* judges every address against that tensor: an address outside its extent is
\* marked invalid even when it lies inside another registered tensor, and an
\* address is valid only if it lies inside the resolved tensor.
C17_BoundsCheckUsesFirstAddressOnly ==
    [][\A ptrs \in RegBatches :
          (check_out_of_bounds_access(ptrs) /\ err' = "ok")
              => /\ \E j \in 1..Len(Last(launches).tensors) :
                       ret'.tensor_ptr = Last(launches).tensors[j]
                 /\ IsSortedByPtr(Last(launches).tensors)
                       => IsFloor(ret'.tensor_ptr, Last(launches).tensors, ptrs[1])
                 /\ \A i \in 1..Len(ptrs) :
                       /\ ret'.valid_access_mask[i] <=> Inside(ptrs[i], ret'.tensor_ptr)
                       /\ \A j \in 1..Len(Last(launches).tensors) :
                             (/\ Inside(ptrs[i], Last(launches).tensors[j])
                              /\ ~Inside(ptrs[i], ret'.tensor_ptr))
                                 => ret'.invalid_access_mask[i]]_vars

\* C17 witness: a batch whose first address lies in one tensor and whose second
\* address lies in another has been checked: the first tensor is returned and
\* the second address is marked invalid.
C17_Witness ==
    /\ call = "check_out_of_bounds_access"
    /\ ret.kind = "Bounds"
    /\ Len(ret.offsets) = 2
    /\ ret.valid_access_mask[1]
    /\ ret.invalid_access_mask[2]
    /\ \E j \in 1..Len(Last(launches).tensors) :
          /\ Last(launches).tensors[j] # ret.tensor_ptr
          /\ Inside(ret.offsets[2] + ret.tensor_ptr.ptr, Last(launches).tensors[j])

\* C18: a set_grid_idx call with a component not below its extent raises the
\* assertion error and changes nothing: the grid index, the grid shape, the
\* sampling target and every launch are as before, no Grid marker is appended.
C18_FailedSetGridIdxChangesNothing ==
    [][\A x \in IdxArgs, y \in IdxArgs, z \in IdxArgs :
          (/\ set_grid_idx(x, y, z)
           /\ (x >= grid_dim[1] \/ y >= grid_dim[2] \/ z >= grid_dim[3]))
              => /\ err' = "AssertionError"
                 /\ UNCHANGED <<launches, sampling_grid_idx, grid_idx, grid_dim>>]_vars

\* C18 witness: with a launch, a sampling target and the index moved off the
\* origin, a set_grid_idx call has failed its range check.
C18_Witness ==
    /\ call = "set_grid_idx"
    /\ err = "AssertionError"
    /\ launches # <<>>
    /\ sampling_grid_idx # NoneVal
    /\ grid_idx = <<1, 0, 1>>

IsAccess(record) == record.kind \in {"Load", "Store"}

\* what C19 says of one Load or Store record kept in a launch with the given
\* tensors
MaskIsValidAndPredicate(r, tensors) ==
    /\ Len(r.masks) = Len(r.original_mask)
    /\ \A i \in 1..Len(r.masks) :
          /\ r.masks[i] <=> (~r.invalid_access_masks[i] /\ r.original_mask[i])
          /\ ~(r.masks[i] /\ r.invalid_access_masks[i])
          /\ ~r.original_mask[i] => ~r.masks[i]
          /\ \A j \in 1..Len(tensors) :
                tensors[j].ptr = r.ptr
                    => (r.masks[i] <=> /\ r.original_mask[i]
                                       /\ Inside(r.original_offsets[i] + r.ptr,
                                                 tensors[j]))

\* C19: in every Load and Store record of every launch, the recorded mask is,
\* element by element, the bounds-validity of the address and the operation's
\* predicate: no element is set both in the mask and in the invalid-access
\* mask, and an element the predicate masks off is not set in the mask, in
\* bounds or not.
C19_RecordedMaskIsValidAndPredicate ==
    \A l \in 1..Len(launches) :
        \A k \in 1..Len(launches[l].records) :
            IsAccess(launches[l].records[k])
                => MaskIsValidAndPredicate(launches[l].records[k], launches[l].tensors)

\* C19 witness: a Store record whose second element is in bounds and masked off
\* by the predicate, after a Load record whose second element is out of bounds
\* under a true predicate.
C19_Witness ==
    /\ launches # <<>>
    /\ \E k \in 1..Len(Last(launches).records) :
          LET r == Last(launches).records[k]
          IN  /\ r.kind = "Store"
              /\ r.masks = <<TRUE, FALSE>>
              /\ r.invalid_access_masks = <<FALSE, FALSE>>
              /\ r.original_mask = <<TRUE, FALSE>>
    /\ \E k \in 1..Len(Last(launches).records) :
          LET r == Last(launches).records[k]
          IN  /\ r.kind = "Load"
              /\ r.masks = <<TRUE, FALSE>>
              /\ r.invalid_access_masks = <<FALSE, TRUE>>
              /\ r.original_mask = <<TRUE, TRUE>>

\* the Grid marker nearest before position k of a record list that begins with a
\* Grid marker
NearestMarker(records, k) ==
    records[CHOOSE j \in 1..k :
                /\ IsGrid(records[j])
                /\ \A m \in (j + 1)..k : ~IsGrid(records[m])]

\* C20: in a launch driven with no sampling target, the record list holds every
\* record handed over, in order; its first record is the Grid marker of cell
\* (0,0,0); and for every operation record the nearest Grid marker before it is
\* the marker of the cell whose kernel instance appended the record.  A launch
\* over a grid with at least one cell that has ended has such a first record.
C20_RecordsFollowTheirCellMarker ==
    /\ (sampling_grid_idx = NoneVal /\ frame.log # <<>>)
          => LET records == Last(launches).records
             IN  /\ Len(records) = Len(frame.log)
                 /\ records[1] = Grid(<<0, 0, 0>>)
                 /\ \A k \in 1..Len(records) :
                       /\ records[k] = frame.log[k].record
                       /\ ~IsGrid(records[k])
                             => NearestMarker(records, k) = Grid(frame.log[k].cell)
    /\ (/\ pc = "done"
        /\ ~frame.warmup
        /\ sampling_grid_idx = NoneVal
        /\ frame.grid[1] * frame.grid[2] * frame.grid[3] > 0)
          => /\ frame.log # <<>>
             /\ Last(launches).records[1] = Grid(<<0, 0, 0>>)

\* C20 witness: a launch over (2,2,1) running three operations per cell has
\* ended with no sampling target: sixteen records, the last a Store after the
\* marker of cell (1,1,0).
C20_Witness ==
    /\ pc = "done"
    /\ ~frame.warmup
    /\ sampling_grid_idx = NoneVal
    /\ frame.grid = <<2, 2, 1>>
    /\ Len(Last(launches).records) = 16
    /\ Last(launches).records[13] = Grid(<<1, 1, 0>>)
    /\ Last(launches).records[16].kind = "Store"

====
